---- MODULE Spec2Model ----
(***************************************************************************)
(* Model of src/app.py: a Streamlit dashboard with two pages.              *)
(*   - "Financial Metrics Comparison": parses a comma-separated ticker     *)
(*     list, fetches each ticker's financial statement table and derives   *)
(*     profitability ratios (calculate_financial_metrics).                 *)
(*   - "Sentiment Analysis": fetches a news feed and labels each record    *)
(*     with a bucketed VADER compound score (analyze_sentiment_vader).     *)
(* Streamlit re-runs the whole script after every widget interaction, so   *)
(* every action below is "change one widget, then run the script".         *)
(*                                                                         *)
(* Numbers.  pandas cells are floats; a cell is modelled as a tagged       *)
(* record: Num(n), NaN, PyNone, or Inf(sign).  Compound polarity scores    *)
(* are modelled in quarters: the integer c stands for the score c/4, so    *)
(* the code's 0.5 is 2 and the range [-1, 1] is -4..4.                     *)
(***************************************************************************)
EXTENDS Integers, Sequences, FiniteSets, TLC

VARIABLES
    page,            \* st.sidebar.radio selection
    tickers_input,   \* st.text_input on the metrics page (sequence of characters)
    metrics,         \* st.multiselect selection, in selection order
    query,           \* st.text_input on the sentiment page
    provider,        \* what yfinance answered, per ticker symbol fetched in the last run
    feed,            \* feed.entries returned by feedparser in the last run
    ui,              \* the elements the last run rendered, in order
    exc,             \* the exception that ended the last run, or "none"
    fin_calls,       \* ticker symbols get_financials was called with in the last run
    asm_calls,       \* argument lists calculate_financial_metrics was called with
    financial_data,  \* the dict of per-ticker YearlyRow frames built by the last call
    metric_data,     \* the MetricTable returned by the last call
    metric_src,      \* history: for each record of metric_data, where it came from
    news_df,         \* the news frame of the last run (with its Sentiment column)
    score_log        \* history: the calls of analyze_sentiment_vader in the last run

vars == <<page, tickers_input, metrics, query, provider, feed, ui, exc, fin_calls,
          asm_calls, financial_data, metric_data, metric_src, news_df, score_log>>

-----------------------------------------------------------------------------
(* Bounds of the model.                                                    *)

MaxInputLen == 3    \* characters typed into the ticker text input
MaxCols == 2        \* fiscal-period columns of a financial statement table
MaxFeed == 2        \* entries of a news feed

-----------------------------------------------------------------------------
(* Generic helpers.                                                        *)

Range(s) == {s[i] : i \in 1..Len(s)}

Count(s, e) == Cardinality({i \in 1..Len(s) : s[i] = e})

SeqsUpTo(S, n) == UNION {[1..k -> S] : k \in 0..n}

Injective(s) == \A i, j \in 1..Len(s) : s[i] = s[j] => i = j

-----------------------------------------------------------------------------
(* Cell values of a pandas frame.                                          *)

Num(n) == [tag |-> "num", n |-> n]
NaN == [tag |-> "nan", n |-> 0]
PyNone == [tag |-> "none", n |-> 0]
Inf(sign) == [tag |-> "inf", n |-> sign]

\* Fault variant of notnull: only None counts as null, NaN passes.
notnull_none_only(v) == v.tag # "none"

\* pd.notnull: false for None and for NaN, true for every other scalar.
notnull(v) == v.tag \notin {"none", "nan"}

\* Fault variant of Ratio: a zero divisor is guarded and gives 0.
Ratio_guarded(a, b) == IF b.n = 0 THEN Num(0) ELSE Num((a.n * 100) \div b.n)

\* (a / b) * 100 on the numpy float64 scalars a row of a numeric frame holds:
\* a zero divisor gives inf, -inf or nan (with a warning), never an exception.
\* The finite cell values of the model are chosen so that the quotient is exact.
Ratio(a, b) ==
    IF b.n = 0
    THEN IF a.n > 0 THEN Inf(1) ELSE IF a.n < 0 THEN Inf(-1) ELSE NaN
    ELSE Num((a.n * 100) \div b.n)

\* str(int): the decimal digits of a non-negative integer.
Digit(d) ==
    CASE d = 0 -> "0" [] d = 1 -> "1" [] d = 2 -> "2" [] d = 3 -> "3"
      [] d = 4 -> "4" [] d = 5 -> "5" [] d = 6 -> "6" [] d = 7 -> "7"
      [] d = 8 -> "8" [] d = 9 -> "9"
RECURSIVE IntToStr(_)
IntToStr(n) == IF n < 10 THEN Digit(n) ELSE IntToStr(n \div 10) \o Digit(n % 10)

-----------------------------------------------------------------------------
(* The remote financial-data provider (yfinance) and get_financials.       *)

LineItems == {"Total Revenue", "Gross Profit", "Net Income", "Operating Income"}

MetricOptions == <<"Gross Profit Margin", "Net Profit Margin", "Operating Margin">>

\* Column labels are fiscal-period end dates <<year, month>>; the labels of one
\* table are distinct, two of them may fall in the same calendar year.
Dates == {<<2022, 12>>, <<2023, 6>>, <<2023, 12>>}

CellValues == {NaN, Num(0), Num(50)}

\* stock.financials raised: get_financials reports it and returns None.
Raises == [kind |-> "raise"]

Frame(index, columns) == [kind |-> "frame", index |-> index, columns |-> columns]

Column(date, cells) == [date |-> date, cells |-> cells]

\* The index sets of the generated tables: at most two line items, and a
\* two-item table has Total Revenue and one numerator.
Indexes ==
    {ix \in SUBSET LineItems :
        \/ Cardinality(ix) <= 1
        \/ Cardinality(ix) = 2 /\ "Total Revenue" \in ix}

FramesOver(ix) ==
    {Frame(ix, cols) :
        cols \in {c \in SeqsUpTo([date : Dates, cells : [ix -> CellValues]], MaxCols) :
                    \A i, j \in 1..Len(c) : c[i].date = c[j].date => i = j}}

Frames == UNION {FramesOver(ix) : ix \in Indexes}

Outcomes == {Raises} \cup Frames

\* get_financials, lines 43-50: the value returned for a provider outcome.
get_financials(outcome) == IF outcome.kind = "raise" THEN PyNone ELSE outcome

\* The st.error of line 49.
FetchError(outcome) ==
    IF outcome.kind = "raise" THEN <<"st.error:Failed to retrieve data">> ELSE << >>

-----------------------------------------------------------------------------
(* calculate_financial_metrics, first loop (lines 54-67): financial_data.  *)

\* pd.to_datetime(year).year
YearOf(date) == date[1]

\* Lines 62-65: the row dict of one column.
MakeRow(financials, c) ==
    [k \in {"Year"} \cup financials.index |->
        IF k = "Year" THEN Num(YearOf(financials.columns[c].date))
        ELSE financials.columns[c].cells[k]]

\* Fault variant of BuildRows: rows are keyed by calendar year, so a later
\* column of the same year replaces the earlier one.
BuildRows_by_year(financials) ==
    IF financials = PyNone
    THEN [exc |-> "AttributeError", rows |-> << >>]
    ELSE LET n == Len(financials.columns)
             year(c) == YearOf(financials.columns[c].date)
             last(c) == \A d \in (c + 1)..n : year(d) # year(c)
             first(c) == \A d \in 1..(c - 1) : year(d) # year(c)
             slots == SelectSeq([c \in 1..n |-> c], first)
             final(c) == CHOOSE d \in 1..n : year(d) = year(c) /\ last(d)
         IN  [exc |-> "none",
              rows |-> [k \in 1..Len(slots) |-> MakeRow(financials, final(slots[k]))]]

\* Lines 60-67: one row per column, appended in column order.  Reading
\* .columns of None raises AttributeError.
BuildRows(financials) ==
    IF financials = PyNone
    THEN [exc |-> "AttributeError", rows |-> << >>]
    ELSE [exc |-> "none",
          rows |-> [c \in 1..Len(financials.columns) |-> MakeRow(financials, c)]]

\* Fault variant of IsNone: the None check of line 58 is missing.
IsNone_never(financials) == FALSE

\* Line 58.
IsNone(financials) == financials = PyNone

\* Lines 56-67, from ticker number i on.  st is the loop's state.
RECURSIVE FetchLoop(_, _, _, _)
FetchLoop(tickers, prov, i, st) ==
    IF i > Len(tickers) \/ st.exc # "none" THEN st
    ELSE LET ticker == tickers[i]
             financials == get_financials(prov[ticker])
             called == [st EXCEPT !.calls = Append(@, ticker),
                                  !.ui = @ \o FetchError(prov[ticker])]
         IN  IF IsNone(financials)
             THEN FetchLoop(tickers, prov, i + 1, called)
             ELSE LET built == BuildRows(financials)
                  IN  FetchLoop(tickers, prov, i + 1,
                        [called EXCEPT !.exc = built.exc,
                                       !.fd = [t \in DOMAIN @ |->
                                                 IF t = ticker THEN built.rows ELSE @[t]]])

-----------------------------------------------------------------------------
(* calculate_financial_metrics, second loop (lines 69-94): metric_data.    *)

\* row.get(item, None)
RowGet(row, item) == IF item \in DOMAIN row THEN row[item] ELSE PyNone

\* Lines 78-90: the value of one metric for one row, or "continue".
MetricValue(metric, row) ==
    LET total_revenue == RowGet(row, "Total Revenue")
        net_income == RowGet(row, "Net Income")
        gross_profit == RowGet(row, "Gross Profit")
        operating_income == RowGet(row, "Operating Income")
        skip == [emit |-> FALSE, value |-> NaN]
    IN  IF notnull(total_revenue)
        THEN IF metric = "Gross Profit Margin" /\ notnull(gross_profit)
             THEN [emit |-> TRUE, value |-> Ratio(gross_profit, total_revenue)]
             ELSE IF metric = "Net Profit Margin" /\ notnull(net_income)
             THEN [emit |-> TRUE, value |-> Ratio(net_income, total_revenue)]
             ELSE IF metric = "Operating Margin" /\ notnull(operating_income)
             THEN [emit |-> TRUE, value |-> Ratio(operating_income, total_revenue)]
             ELSE skip
        ELSE skip

\* Fault variant of AppendRecord: the operands of pd.concat are swapped.
AppendRecord_in_front(md, rec, from) ==
    [table |-> <<rec>> \o md.table, src |-> <<from>> \o md.src]

\* Line 91: pd.concat([metric_data, <the new one-row frame>], ignore_index=True).
\* md.src is the history of md.table: the position in the ticker list and the
\* row number each record was derived from.
AppendRecord(md, rec, from) ==
    [table |-> Append(md.table, rec), src |-> Append(md.src, from)]

\* Lines 76-91, from row number r on.
RECURSIVE RowLoop(_, _, _, _, _, _)
RowLoop(ticker, pos, metric, df, r, md) ==
    IF r > Len(df) THEN md
    ELSE LET row == df[r]
             year == row["Year"]
             mv == MetricValue(metric, row)
         IN  RowLoop(ticker, pos, metric, df, r + 1,
                IF mv.emit
                THEN AppendRecord(md,
                        [Year |-> year.n, Metric |-> metric, Ticker |-> ticker,
                         Value |-> mv.value],
                        [pos |-> pos, row |-> r])
                ELSE md)

\* Lines 75-91, from metric number j on.
RECURSIVE MetricLoop(_, _, _, _, _, _)
MetricLoop(ticker, pos, mets, df, j, md) ==
    IF j > Len(mets) THEN md
    ELSE MetricLoop(ticker, pos, mets, df, j + 1,
                    RowLoop(ticker, pos, mets[j], df, 1, md))

\* Lines 71-91, from ticker number i on; df.empty skips the ticker.
RECURSIVE TickerLoop(_, _, _, _, _)
TickerLoop(tickers, mets, fd, i, md) ==
    IF i > Len(tickers) THEN md
    ELSE LET df == fd[tickers[i]]
         IN  TickerLoop(tickers, mets, fd, i + 1,
                        IF Len(df) = 0 THEN md
                        ELSE MetricLoop(tickers[i], i, mets, df, 1, md))

\* Line 93: metric_data['Year'].astype(str).
YearAsStr(table) == [i \in 1..Len(table) |-> [table[i] EXCEPT !.Year = IntToStr(@)]]

\* Lines 53-94.  The result carries, beside the returned table, what the call
\* did on the way: the accessor calls, the messages shown, the exception raised.
calculate_financial_metrics(tickers, mets, prov) ==
    LET st0 == [fd |-> [t \in Range(tickers) |-> << >>], calls |-> << >>,
                ui |-> << >>, exc |-> "none"]
        st1 == FetchLoop(tickers, prov, 1, st0)
        md == TickerLoop(tickers, mets, st1.fd, 1, [table |-> << >>, src |-> << >>])
    IN  IF st1.exc # "none"
        THEN [exc |-> st1.exc, ui |-> st1.ui, calls |-> st1.calls, fd |-> st1.fd,
              table |-> << >>, src |-> << >>]
        ELSE [exc |-> "none", ui |-> st1.ui, calls |-> st1.calls, fd |-> st1.fd,
              table |-> YearAsStr(md.table), src |-> md.src]

-----------------------------------------------------------------------------
(* The ticker text input (lines 105, 110-112).                             *)

Chars == {"a", "B", " ", ","}

Inputs == SeqsUpTo(Chars, MaxInputLen)

\* str.split(','): the pieces between commas; a string without a comma is one
\* piece, the empty string included.
RECURSIVE SplitFrom(_, _, _)
SplitFrom(s, i, piece) ==
    IF i > Len(s) THEN <<piece>>
    ELSE IF s[i] = "," THEN <<piece>> \o SplitFrom(s, i + 1, << >>)
    ELSE SplitFrom(s, i + 1, Append(piece, s[i]))
split(s) == SplitFrom(s, 1, << >>)

\* str.strip(): leading and trailing whitespace removed.
RECURSIVE lstrip(_)
lstrip(s) == IF Len(s) > 0 /\ s[1] = " " THEN lstrip(Tail(s)) ELSE s
RECURSIVE rstrip(_)
rstrip(s) ==
    IF Len(s) > 0 /\ s[Len(s)] = " " THEN rstrip(SubSeq(s, 1, Len(s) - 1)) ELSE s
strip(s) == rstrip(lstrip(s))

\* str.upper()
UpperChar(ch) == IF ch = "a" THEN "A" ELSE ch
upper(s) == [i \in 1..Len(s) |-> UpperChar(s[i])]

\* Fault variant of NormalizeTicker: .upper() is missing.
NormalizeTicker_strip_only(piece) == strip(piece)

\* Line 111: ticker.strip().upper() for each piece.
NormalizeTicker(piece) == upper(strip(piece))
ParseTickers(text) ==
    LET pieces == split(text) IN [i \in 1..Len(pieces) |-> NormalizeTicker(pieces[i])]

\* st.multiselect: any selection of distinct options, in the order selected.
MetricLists == {m \in SeqsUpTo(Range(MetricOptions), Len(MetricOptions)) : Injective(m)}

-----------------------------------------------------------------------------
(* The metrics page (lines 102-135).                                       *)

\* What the provider can answer a page request of the model: a failure, an
\* empty table (what an unknown symbol gets), a two-period table whose
\* columns are newest first and whose older Net Income is null, and a
\* one-period table with a null Net Income and no Operating Income row.
FullFrame ==
    Frame(LineItems,
          <<Column(<<2023, 12>>, [k \in LineItems |-> Num(50)]),
            Column(<<2022, 12>>, [k \in LineItems |->
                                    IF k = "Total Revenue" THEN Num(50)
                                    ELSE IF k = "Net Income" THEN NaN ELSE Num(0)])>>)
PartialFrame ==
    Frame({"Total Revenue", "Gross Profit", "Net Income"},
          <<Column(<<2023, 6>>, [k \in {"Total Revenue", "Gross Profit", "Net Income"} |->
                                   IF k = "Net Income" THEN NaN ELSE Num(50)])>>)
PageOutcomes == {Raises, Frame({}, << >>), FullFrame, PartialFrame}

\* The provider has no data for the empty symbol: yf.Ticker('') fails.
PageOutcomesFor(symbol) == IF symbol = << >> THEN {Raises} ELSE PageOutcomes

NoRun ==
    [ui |-> << >>, exc |-> "none", fin_calls |-> << >>, asm_calls |-> << >>,
     fd |-> << >>, table |-> << >>, src |-> << >>, news_df |-> << >>,
     score_log |-> << >>]

\* Fault variant of RenderMetrics: the emptiness check of line 115 is missing.
RenderMetrics_always(table) ==
    <<"st.subheader:Financial Metrics Table", "st.dataframe",
      "st.subheader:Financial Metrics Chart", "st.plotly_chart">>

\* Lines 115-133: the table and the chart, or the empty-state message.
RenderMetrics(table) ==
    IF table # << >>
    THEN <<"st.subheader:Financial Metrics Table", "st.dataframe",
           "st.subheader:Financial Metrics Chart", "st.plotly_chart">>
    ELSE <<"st.error:No data available">>

\* Line 110: both inputs are truthy.
MetricsInputsGiven(text, mets) == text # << >> /\ mets # << >>

\* Lines 103-135.  An exception ends the run where it is raised.
MetricsPage(text, mets, prov) ==
    IF MetricsInputsGiven(text, mets) /\ ParseTickers(text) # << >>
    THEN LET tickers == ParseTickers(text)
             res == calculate_financial_metrics(tickers, mets, prov)
             called == [NoRun EXCEPT !.fin_calls = res.calls,
                                     !.asm_calls = <<[tickers |-> tickers, metrics |-> mets]>>,
                                     !.fd = res.fd, !.exc = res.exc]
         IN  IF res.exc # "none"
             THEN [called EXCEPT !.ui = <<"st.title">> \o res.ui \o <<"exception">>]
             ELSE [called EXCEPT !.table = res.table, !.src = res.src,
                                 !.ui = <<"st.title">> \o res.ui \o RenderMetrics(res.table)
                                        \o <<"st.markdown">>]
    ELSE [NoRun EXCEPT !.ui = <<"st.title", "st.markdown">>]

-----------------------------------------------------------------------------
(* The sentiment page (lines 15-39, 137-160).                              *)

\* A text is modelled by an identifier and the compound polarity VADER gives
\* it, in quarters (-4..4 is [-1, 1]).
Scores == -4..4
Text(id, compound) == [id |-> id, compound |-> compound]

\* sid.polarity_scores(text), line 29.
polarity_scores(text) == [compound |-> text.compound]

\* Fault variant of SentimentLabel: the extreme buckets are strict.
SentimentLabel_strict(compound) ==
    IF compound > 2 THEN "Extremely Positive"
    ELSE IF compound > 0 THEN "Positive"
    ELSE IF compound < -2 THEN "Extremely Negative"
    ELSE IF compound < 0 THEN "Negative"
    ELSE "Neutral"

\* Lines 30-39: the thresholds 0.5 and -0.5 are 2 and -2 quarters.
SentimentLabel(compound) ==
    IF compound >= 2 THEN "Extremely Positive"
    ELSE IF compound > 0 THEN "Positive"
    ELSE IF compound <= -2 THEN "Extremely Negative"
    ELSE IF compound < 0 THEN "Negative"
    ELSE "Neutral"

\* Lines 27-39.
analyze_sentiment_vader(text) == SentimentLabel(polarity_scores(text).compound)

\* The entries a feed of the model can hold.
Entries ==
    [title : {Text("headline", c) : c \in {-3, 0, 3}},
     link : {"link"},
     summary : {Text("summary", c) : c \in Scores}]
Feeds == SeqsUpTo(Entries, MaxFeed)

Queries == {"", "AAPL"}

\* fetch_news, lines 15-24: one record per entry, in feed order.
fetch_news(entries) ==
    [i \in 1..Len(entries) |->
        [Headline |-> entries[i].title, Link |-> entries[i].link,
         Snippet |-> entries[i].summary]]

\* Fault variant of ScoredText: the headline is scored.
ScoredText_headline(rec) == rec.Headline

\* Line 149: the column the labels are computed from.
ScoredText(rec) == rec.Snippet

\* Line 149: news_df['Sentiment'] = news_df['Snippet'].apply(analyze_sentiment_vader)
AddSentiment(df) ==
    [i \in 1..Len(df) |->
        [Headline |-> df[i].Headline, Link |-> df[i].Link, Snippet |-> df[i].Snippet,
         Sentiment |-> analyze_sentiment_vader(ScoredText(df[i]))]]

\* The calls Series.apply makes: one per element, in order.
ScoreCalls(df) ==
    [i \in 1..Len(df) |->
        [text |-> ScoredText(df[i]),
         compound |-> polarity_scores(ScoredText(df[i])).compound,
         label |-> analyze_sentiment_vader(ScoredText(df[i]))]]

\* Fault variant of SentimentBody: the emptiness check of line 147 is missing.
SentimentBody_unchecked(df) ==
    [news_df |-> AddSentiment(df), score_log |-> ScoreCalls(df),
     ui |-> <<"st.subheader:News Articles", "st.dataframe", "st.plotly_chart">>]

\* Lines 147-158.
SentimentBody(df) ==
    IF df # << >>
    THEN [news_df |-> AddSentiment(df), score_log |-> ScoreCalls(df),
          ui |-> <<"st.subheader:News Articles", "st.dataframe", "st.plotly_chart">>]
    ELSE [news_df |-> df, score_log |-> << >>,
          ui |-> <<"st.error:No news articles found">>]

\* Lines 138-160.
SentimentPage(q, entries) ==
    IF q # ""
    THEN LET body == SentimentBody(fetch_news(entries))
         IN  [NoRun EXCEPT !.news_df = body.news_df, !.score_log = body.score_log,
                           !.ui = <<"st.title", "st.write:Fetched">> \o body.ui]
    ELSE [NoRun EXCEPT !.ui = <<"st.title", "st.info">>]

-----------------------------------------------------------------------------
(* The running application.                                                *)

Pages == {"Financial Metrics Comparison", "Sentiment Analysis"}

\* The state a script run leaves behind.
Shown(run) ==
    /\ ui' = run.ui
    /\ exc' = run.exc
    /\ fin_calls' = run.fin_calls
    /\ asm_calls' = run.asm_calls
    /\ financial_data' = run.fd
    /\ metric_data' = run.table
    /\ metric_src' = run.src
    /\ news_df' = run.news_df
    /\ score_log' = run.score_log

\* One run of the metrics page: the provider answers once per symbol (the
\* st.cache_data of line 42 makes a repeated symbol see the same answer).
RunMetricsPage(text, mets) ==
    IF MetricsInputsGiven(text, mets)
    THEN \E prov \in [Range(ParseTickers(text)) -> PageOutcomes] :
            /\ \A t \in DOMAIN prov : prov[t] \in PageOutcomesFor(t)
            /\ provider' = prov
            /\ \E run \in {MetricsPage(text, mets, prov)} : Shown(run)
    ELSE /\ provider' = << >>
         /\ \E run \in {MetricsPage(text, mets, << >>)} : Shown(run)

\* One run of the sentiment page: the feed answers the query.
RunSentimentPage(q) ==
    IF q # ""
    THEN \E entries \in Feeds :
            /\ feed' = entries
            /\ \E run \in {SentimentPage(q, entries)} : Shown(run)
    ELSE /\ feed' = << >>
         /\ \E run \in {SentimentPage(q, << >>)} : Shown(run)

\* The first run of the script: the first radio option, every input empty.
Init ==
    /\ page = "Financial Metrics Comparison"
    /\ tickers_input = << >>
    /\ metrics = << >>
    /\ query = ""
    /\ provider = << >>
    /\ feed = << >>
    /\ ui = <<"st.title", "st.markdown">>
    /\ exc = "none"
    /\ fin_calls = << >>
    /\ asm_calls = << >>
    /\ financial_data = << >>
    /\ metric_data = << >>
    /\ metric_src = << >>
    /\ news_df = << >>
    /\ score_log = << >>

\* Line 100: the radio changes; the widgets of the page left are not rendered
\* in the run and start empty again.
SelectPage(p) ==
    /\ p # page
    /\ page' = p
    /\ tickers_input' = << >>
    /\ metrics' = << >>
    /\ query' = ""
    /\ IF p = "Financial Metrics Comparison"
       THEN RunMetricsPage(<< >>, << >>) /\ feed' = << >>
       ELSE RunSentimentPage("") /\ provider' = << >>

\* Line 105: the user edits the text by one character, typing one at the end
\* or deleting the last one, and commits it; every text is reached this way.
OneEdit(old, new) ==
    \/ Len(new) = Len(old) + 1 /\ SubSeq(new, 1, Len(old)) = old
    \/ Len(old) = Len(new) + 1 /\ SubSeq(old, 1, Len(new)) = new

EnterTickers(text) ==
    /\ page = "Financial Metrics Comparison"
    /\ OneEdit(tickers_input, text)
    /\ tickers_input' = text
    /\ RunMetricsPage(text, metrics)
    /\ UNCHANGED <<page, metrics, query, feed>>

\* Line 106: a click on the multiselect adds one option at the end of the
\* selection or removes one option from it.
OneClick(old, new) ==
    \/ Len(new) = Len(old) + 1 /\ SubSeq(new, 1, Len(old)) = old
    \/ \E k \in 1..Len(old) :
          new = SubSeq(old, 1, k - 1) \o SubSeq(old, k + 1, Len(old))

SelectMetrics(mets) ==
    /\ page = "Financial Metrics Comparison"
    /\ OneClick(metrics, mets)
    /\ metrics' = mets
    /\ RunMetricsPage(tickers_input, mets)
    /\ UNCHANGED <<page, tickers_input, query, feed>>

\* Line 140.
EnterQuery(q) ==
    /\ page = "Sentiment Analysis"
    /\ q # query
    /\ query' = q
    /\ RunSentimentPage(q)
    /\ UNCHANGED <<page, tickers_input, metrics, provider>>

Next ==
    \/ \E p \in Pages : SelectPage(p)
    \/ \E text \in Inputs : EnterTickers(text)
    \/ \E mets \in MetricLists : SelectMetrics(mets)
    \/ \E q \in Queries : EnterQuery(q)

Spec == Init /\ [][Next]_vars

-----------------------------------------------------------------------------
(* calculate_financial_metrics called on its own, once, with one ticker    *)
(* and any generated table.                                                *)

InitAsm ==
    /\ Init

CallCalculate(ticker, mets, outcome) ==
    LET tickers == <<ticker>>
        prov == [t \in {ticker} |-> outcome]
        res == calculate_financial_metrics(tickers, mets, prov)
    IN  /\ metrics' = mets
        /\ provider' = prov
        /\ \E run \in {[NoRun EXCEPT
                            !.ui = res.ui, !.exc = res.exc, !.fin_calls = res.calls,
                            !.asm_calls = <<[tickers |-> tickers, metrics |-> mets]>>,
                            !.fd = res.fd, !.table = res.table, !.src = res.src]} :
              Shown(run)
        /\ UNCHANGED <<page, tickers_input, query, feed>>

\* The metric lists of these calls: each metric alone, and all three.
AsmMetricLists == {<<MetricOptions[i]>> : i \in 1..Len(MetricOptions)} \cup {MetricOptions}

NextAsm ==
    /\ asm_calls = << >>
    /\ \E mets \in AsmMetricLists, outcome \in Outcomes :
          CallCalculate(<<"B">>, mets, outcome)

SpecAsm == InitAsm /\ [][NextAsm]_vars

-----------------------------------------------------------------------------
(* Properties.  They are stated over what the provider answered and what   *)
(* the run left behind, not over the operators above.                      *)

Called == asm_calls # << >>
CallTickers == asm_calls[1].tickers
CallMetrics == asm_calls[1].metrics

\* The numerator line item of a metric.
Numerator(metric) ==
    CASE metric = "Gross Profit Margin" -> "Gross Profit"
      [] metric = "Net Profit Margin" -> "Net Income"
      [] metric = "Operating Margin" -> "Operating Income"

\* The line item is a row of the table and its cell in column c is not null.
Present(frame, c, item) ==
    item \in frame.index /\ frame.columns[c].cells[item] # NaN

Cell(frame, c, item) == frame.columns[c].cells[item]

\* The records of metric_data derived from row c of the ticker at position p
\* for metric m.
RecordsOf(p, c, m) ==
    {i \in 1..Len(metric_data) :
        metric_src[i] = [pos |-> p, row |-> c] /\ metric_data[i].Metric = m}

\* The (position, column, metric) triples of the last call whose ticker got a table.
Derivable ==
    {x \in (1..Len(CallTickers)) \X (1..MaxCols + 1) \X Range(CallMetrics) :
        /\ provider[CallTickers[x[1]]].kind = "frame"
        /\ x[2] <= Len(provider[CallTickers[x[1]]].columns)}

\* C1: a MetricRecord is emitted for (ticker, row, metric) exactly when the row's
\* Total Revenue and the metric's numerator are present and non-null; the record
\* carries the ticker, the metric and numerator / Total Revenue * 100.
C1_EmittedIffPresent ==
    Called =>
        \A x \in Derivable :
            LET t == CallTickers[x[1]]
                frame == provider[t]
                hits == RecordsOf(x[1], x[2], x[3])
            IN  IF Present(frame, x[2], "Total Revenue")
                   /\ Present(frame, x[2], Numerator(x[3]))
                THEN /\ Cardinality(hits) = 1
                     /\ \A i \in hits :
                          /\ metric_data[i].Ticker = t
                          /\ Cell(frame, x[2], "Total Revenue").n # 0
                               => /\ metric_data[i].Value.tag = "num"
                                  /\ metric_data[i].Value.n
                                        * Cell(frame, x[2], "Total Revenue").n
                                     = 100 * Cell(frame, x[2], Numerator(x[3])).n
                ELSE hits = {}

\* A call that emitted a record for one row and skipped another row whose
\* numerator is null.
C1_Witness ==
    /\ Called
    /\ \E x \in Derivable :
          /\ Present(provider[CallTickers[x[1]]], x[2], "Total Revenue")
          /\ Numerator(x[3]) \in provider[CallTickers[x[1]]].index
          /\ ~Present(provider[CallTickers[x[1]]], x[2], Numerator(x[3]))
    /\ \E i \in 1..Len(metric_data) : metric_data[i].Value = Num(100)

\* C9 as stated: a ticker's YearlyRow sequence holds at most one row per year.
C9_OneRowPerYear ==
    \A t \in DOMAIN financial_data :
        \A i, j \in 1..Len(financial_data[t]) :
            financial_data[t][i]["Year"] = financial_data[t][j]["Year"] => i = j

\* C9, amended: the row builder produces one YearlyRow per column, in column
\* order, each with the calendar year and the cells of its own column; columns
\* of the same calendar year give separate rows and nothing is overwritten.
C9_OneRowPerColumn ==
    Called /\ exc = "none" =>
        \A t \in Range(CallTickers) :
            provider[t].kind = "frame" =>
                /\ Len(financial_data[t]) = Len(provider[t].columns)
                /\ \A c \in 1..Len(provider[t].columns) :
                      /\ DOMAIN financial_data[t][c] = {"Year"} \cup provider[t].index
                      /\ financial_data[t][c]["Year"] = Num(provider[t].columns[c].date[1])
                      /\ \A k \in provider[t].index :
                            financial_data[t][c][k] = Cell(provider[t], c, k)

\* A table with two columns in the same calendar year and different revenue,
\* both of which gave a record.
C9_Witness ==
    /\ Called
    /\ \E t \in Range(CallTickers) :
          /\ provider[t].kind = "frame"
          /\ Len(provider[t].columns) = 2
          /\ provider[t].columns[1].date[1] = provider[t].columns[2].date[1]
          /\ provider[t].columns[1].cells # provider[t].columns[2].cells
    /\ Len(metric_data) = 2
    /\ metric_data[1].Year = metric_data[2].Year
    /\ metric_data[1].Metric = metric_data[2].Metric

\* C10: a row whose Total Revenue is zero and whose numerator is non-null is
\* neither skipped nor an error: it gives exactly one record per requested
\* metric, whose Value is infinite or undefined.
C10_ZeroRevenueEmitted ==
    Called =>
        /\ exc = "none"
        /\ \A x \in Derivable :
              LET frame == provider[CallTickers[x[1]]]
                  hits == RecordsOf(x[1], x[2], x[3])
              IN  /\ "Total Revenue" \in frame.index
                  /\ Cell(frame, x[2], "Total Revenue") = Num(0)
                  /\ Present(frame, x[2], Numerator(x[3]))
                  => /\ Cardinality(hits) = 1
                     /\ \A i \in hits : metric_data[i].Value.tag \in {"inf", "nan"}

\* A call that emitted an infinite Value and an undefined one.
C10_Witness ==
    /\ Called
    /\ \E i, j \in 1..Len(metric_data) :
          /\ metric_data[i].Value = Inf(1)
          /\ metric_data[j].Value = NaN

\* The ticker list without the tickers whose fetch failed.
Fetched(tickers) == SelectSeq(tickers, LAMBDA t : provider[t].kind # "raise")

\* C2: a ticker whose fetch returns None does not end the call; it contributes
\* no record, and the table is the one the remaining tickers give without it.
C2_AbsentTickerSkipped ==
    Called =>
        /\ exc = "none"
        /\ \A i \in 1..Len(metric_data) : provider[metric_data[i].Ticker].kind # "raise"
        /\ metric_data =
             calculate_financial_metrics(Fetched(CallTickers), CallMetrics, provider).table

\* A call with a failing ticker and another ticker that gave records.
C2_Witness ==
    /\ Called
    /\ \E t \in Range(CallTickers) : provider[t].kind = "raise"
    /\ metric_data # << >>
    /\ ui[Len(ui) - 1] = "st.plotly_chart"

\* The first position of a value in a sequence that holds it.
IndexOf(seq, e) == CHOOSE i \in 1..Len(seq) : seq[i] = e /\ \A j \in 1..(i - 1) : seq[j] # e

\* C3 as stated: of two records, the one whose ticker is earlier in the ticker
\* list is first; for one ticker, the one whose metric is earlier in the metric
\* list is first; for one ticker and metric, the records follow the row order.
C3_TickerThenMetricThenRow ==
    Called =>
        \A i, j \in 1..Len(metric_data) :
            i < j =>
                LET a == metric_data[i]
                    b == metric_data[j]
                IN  /\ IndexOf(CallTickers, a.Ticker) <= IndexOf(CallTickers, b.Ticker)
                    /\ a.Ticker = b.Ticker
                         => IndexOf(CallMetrics, a.Metric) <= IndexOf(CallMetrics, b.Metric)
                    /\ a.Ticker = b.Ticker /\ a.Metric = b.Metric
                         => metric_src[i].row <= metric_src[j].row

\* C3, amended: the table is ordered by position in the ticker list, a ticker
\* listed twice giving one block of records per occurrence; inside a block by
\* the metric's place in the metric list; for one block and metric by row.
C3_PositionThenMetricThenRow ==
    Called =>
        /\ Len(metric_src) = Len(metric_data)
        /\ \A i \in 1..Len(metric_data) :
              /\ metric_src[i].pos \in 1..Len(CallTickers)
              /\ metric_data[i].Ticker = CallTickers[metric_src[i].pos]
              /\ metric_data[i].Metric \in Range(CallMetrics)
        /\ \A i, j \in 1..Len(metric_data) :
              i < j =>
                  LET a == metric_data[i]
                      b == metric_data[j]
                      pa == metric_src[i].pos
                      pb == metric_src[j].pos
                  IN  /\ pa <= pb
                      /\ pa = pb
                           => IndexOf(CallMetrics, a.Metric) <= IndexOf(CallMetrics, b.Metric)
                      /\ pa = pb /\ a.Metric = b.Metric
                           => metric_src[i].row < metric_src[j].row

\* A call with a ticker listed twice, two metrics and records from both rows.
C3_Witness ==
    /\ Called
    /\ Len(CallTickers) = 2
    /\ CallTickers[1] = CallTickers[2]
    /\ Len(CallMetrics) >= 2
    /\ Len(metric_data) >= 6

\* The label the specification gives a compound score (in quarters).
LabelsFor(c) ==
    {l \in {"Extremely Positive", "Positive", "Neutral", "Negative", "Extremely Negative"} :
        \/ l = "Extremely Positive" /\ c >= 2
        \/ l = "Positive" /\ 0 < c /\ c < 2
        \/ l = "Neutral" /\ c = 0
        \/ l = "Negative" /\ -2 < c /\ c < 0
        \/ l = "Extremely Negative" /\ c <= -2}

\* C4: every scoring call returns the one label of its compound score:
\* Extremely Positive from 0.5 up, Positive between 0 and 0.5, Neutral at 0,
\* Negative between -0.5 and 0, Extremely Negative from -0.5 down.
C4_LabelByThreshold ==
    \A i \in 1..Len(score_log) :
        /\ score_log[i].compound \in Scores
        /\ LabelsFor(score_log[i].compound) = {score_log[i].label}

\* A run that scored a text at exactly 0.5 and one at exactly -0.5.
C4_Witness ==
    /\ Len(score_log) = 2
    /\ score_log[1].compound = 2
    /\ score_log[2].compound = -2

\* C5: when the assembler returns an empty table the page shows the "no data
\* available" message once, no table, no chart and no exception; when it
\* returns records the page shows the table and the chart and not the message.
C5_EmptyTableMessage ==
    page = "Financial Metrics Comparison" /\ Called =>
        /\ exc = "none"
        /\ metric_data = << >> =>
              /\ Count(ui, "st.error:No data available") = 1
              /\ Count(ui, "st.dataframe") = 0
              /\ Count(ui, "st.plotly_chart") = 0
        /\ metric_data # << >> =>
              /\ Count(ui, "st.error:No data available") = 0
              /\ Count(ui, "st.dataframe") = 1
              /\ Count(ui, "st.plotly_chart") = 1

\* A request whose every ticker failed to load.
C5_Witness ==
    /\ page = "Financial Metrics Comparison"
    /\ Called
    /\ \A t \in Range(CallTickers) : provider[t].kind = "raise"
    /\ metric_data = << >>
    /\ "st.error:No data available" \in Range(ui)

\* C6: with a query, an empty feed shows "no articles found" and scores
\* nothing; a feed with records is scored once per record and the message
\* is not shown.
C6_ScoringOncePerRecord ==
    page = "Sentiment Analysis" /\ query # "" =>
        /\ feed = << >> =>
              /\ Count(ui, "st.error:No news articles found") = 1
              /\ score_log = << >>
        /\ feed # << >> =>
              /\ Count(ui, "st.error:No news articles found") = 0
              /\ Len(score_log) = Len(feed)
              /\ \A i \in 1..Len(feed) : score_log[i].text \in {feed[i].title, feed[i].summary}

\* A query answered by an empty feed.
C6_Witness ==
    /\ page = "Sentiment Analysis"
    /\ query # ""
    /\ feed = << >>
    /\ "st.error:No news articles found" \in Range(ui)

\* The one label of a compound score.
LabelFor(c) == CHOOSE l \in LabelsFor(c) : TRUE

\* C7 as stated: every record has one label, in feed order, and the label is
\* the classification of the record's headline.
C7_LabelOfHeadline ==
    page = "Sentiment Analysis" /\ query # "" =>
        /\ Len(news_df) = Len(feed)
        /\ \A i \in 1..Len(feed) :
              /\ news_df[i].Headline = feed[i].title
              /\ news_df[i].Sentiment = LabelFor(feed[i].title.compound)

\* C7, amended: every record has one label, in feed order, and the label is
\* the classification of the record's Snippet (the entry's summary).
C7_LabelOfSnippet ==
    page = "Sentiment Analysis" /\ query # "" =>
        /\ Len(news_df) = Len(feed)
        /\ \A i \in 1..Len(feed) :
              /\ news_df[i].Headline = feed[i].title
              /\ news_df[i].Link = feed[i].link
              /\ news_df[i].Snippet = feed[i].summary
              /\ news_df[i].Sentiment = LabelFor(feed[i].summary.compound)

\* A labelled record whose headline and snippet classify differently.
C7_Witness ==
    /\ page = "Sentiment Analysis"
    /\ Len(news_df) = 2
    /\ news_df[1].Sentiment = "Extremely Negative"
    /\ news_df[1].Headline.compound = 3
    /\ news_df[2].Sentiment = "Neutral"

\* A ticker symbol with no whitespace at either end and no lower-case letter.
TrimmedUpper(t) ==
    /\ Len(t) > 0 => t[1] # " " /\ t[Len(t)] # " "
    /\ \A i \in 1..Len(t) : t[i] # "a"

\* C8: with an empty ticker input or no metric selected the page is idle: no
\* accessor call, no table, no chart, no error message; the assembler runs
\* only with both given, and every symbol it gets is trimmed and upper-case.
C8_IdleWithoutInputs ==
    page = "Financial Metrics Comparison" =>
        /\ tickers_input = << >> \/ metrics = << >> =>
              /\ fin_calls = << >>
              /\ ~Called
              /\ ui = <<"st.title", "st.markdown">>
        /\ Called =>
              /\ tickers_input # << >>
              /\ metrics # << >>
              /\ CallMetrics = metrics
              /\ CallTickers # << >>
              /\ \A i \in 1..Len(CallTickers) : TrimmedUpper(CallTickers[i])

\* A request typed with surrounding blanks and a lower-case letter.
C8_Witness ==
    /\ page = "Financial Metrics Comparison"
    /\ tickers_input = <<" ", "a", " ">>
    /\ Called
    /\ CallTickers = << <<"A">> >>
    /\ fin_calls = << <<"A">> >>

====
